---------------------------- MODULE Spec2Model ----------------------------
(***************************************************************************)
(* A model of server.js: the Express routes /api/signup, /api/login,       *)
(* /api/update-email, /api/update-password, /api/preferences and           *)
(* /api/recipe over the three mongoose collections User, UserPreference    *)
(* and Recipe.                                                             *)
(*                                                                         *)
(* Two specifications share the module.  Spec runs the account routes;     *)
(* the two check-then-write handlers (signup, update-email) are split at   *)
(* the await between their lookup and their write, so requests interleave  *)
(* there.  RecipeSpec runs the preference and recipe routes.               *)
(*                                                                         *)
(* JavaScript values are tagged records, strings are sequences of          *)
(* characters, so that truthiness, .length, .includes and optional         *)
(* chaining are computed as the code computes them.                        *)
(***************************************************************************)
EXTENDS Integers, Sequences, FiniteSets, Bags, TLC

VARIABLES
    users,      \* the User collection: sequence of documents, _id = index
                \* (email and passwordHash; createdAt is set once at insert
                \* and read by no route)
    inflight,   \* bag of requests suspended at the await before their write
    tokens,     \* tokens issued so far and still held by clients
    now,        \* server clock, in days
    last,       \* the request handled by the latest step and its response
    lastPw,     \* per user id: password of its latest successful update-password
    prefs,      \* the UserPreference collection
    recipes,    \* the Recipe collection
    clock,      \* Date.now() of the preference/recipe server, in ticks
    lastR       \* latest preference/recipe request and its response

authVars == <<users, inflight, tokens, now, last, lastPw>>
recipeVars == <<prefs, recipes, clock, lastR>>
vars == <<users, inflight, tokens, now, last, lastPw, prefs, recipes, clock, lastR>>

-----------------------------------------------------------------------------
(* Bounds *)
MaxUsers == 2
MaxInFlight == 2
MaxTicks == 1
NumSalts == 1
MaxPrefs == 2
MaxRecipes == 1
MaxClock == 1

(* Program constants *)
ExpiresInDays == 7
MinPasswordLength == 6

-----------------------------------------------------------------------------
(* JavaScript values *)
Undefined == [t |-> "undefined"]
Null == [t |-> "null"]
Str(s) == [t |-> "string", s |-> s]
Num(n) == [t |-> "number", n |-> n]
Arr(items) == [t |-> "array", items |-> items]
Obj(fields) == [t |-> "object", f |-> fields]
Throw == [t |-> "throw"]

\* !v : undefined, null, "" and 0 are falsy; arrays and objects are truthy
Falsy(v) ==
    \/ v.t = "undefined"
    \/ v.t = "null"
    \/ (v.t = "string" /\ v.s = <<>>)
    \/ (v.t = "number" /\ v.n = 0)

\* v == null
Nullish(v) == v.t \in {"undefined", "null"}

\* String.prototype.includes for a one-character needle
Includes(s, ch) == \E i \in 1..Len(s) : s[i] = ch

EmailA == <<"a", "@", "z">>
EmailB == <<"b", "@", "z">>
EmailC == <<"c", "@", "z">>
EmailNoAt == <<"a", "z">>
Pw5 == <<"p", "a", "s", "s", "5">>
Pw6 == <<"s", "e", "c", "r", "e", "t">>

\* request body fields tried: absent, and strings
EmailInputs == {Undefined, Str(EmailA), Str(EmailB)}
NewEmailInputs == {Undefined, Str(EmailNoAt), Str(EmailA), Str(EmailC)}
PasswordInputs == {Undefined, Str(Pw5), Str(Pw6)}
Salts == 1..NumSalts


-----------------------------------------------------------------------------
(* Libraries: bcryptjs and jsonwebtoken *)

\* bcrypt.hash(password, salt): a salted digest; distinct passwords give
\* distinct digests on the bounded password set
bcryptHash(password, salt) == [digestOf |-> password, salt |-> salt]

\* a comparison that accepts every password
bcryptCompareAny(password, hash) == TRUE

\* bcrypt.compare(password, hash)
bcryptCompare(password, hash) == hash.digestOf = password

\* jwt.sign({ id }, JWT_SECRET, { expiresIn: "7d" }) at time t
jwtSign(id, t) ==
    [t |-> "jwt", id |-> id, exp |-> t + ExpiresInDays, key |-> "JWT_SECRET"]

\* jwt.verify(token, JWT_SECRET) at time t returns the payload; FALSE here
\* stands for every case in which it throws
jwtVerifies(token, t) ==
    /\ token.t = "jwt"
    /\ token.key = "JWT_SECRET"
    /\ t < token.exp

-----------------------------------------------------------------------------
(* Authorization header *)
Header(parts) == [t |-> "header", parts |-> parts]
Bearer == Str(<<"B", "e", "a", "r", "e", "r">>)
Garbage == Str(<<"x">>)
ForgedToken == [t |-> "jwt", id |-> 1, exp |-> (MaxTicks + 1) * ExpiresInDays, key |-> "other"]

AuthHeaders ==
    {Undefined, Header(<<Bearer>>), Header(<<Bearer, Garbage>>),
     Header(<<Bearer, ForgedToken>>)}
    \cup {Header(<<Bearer, tok>>) : tok \in tokens}

\* req.headers.authorization?.split(" ")[1]
BearerToken(auth) ==
    IF auth.t = "undefined" THEN Undefined
    ELSE IF Len(auth.parts) >= 2 THEN auth.parts[2] ELSE Undefined

-----------------------------------------------------------------------------
(* The User collection *)

\* User.findOne({ email }): the _id of a document with that email, 0 for null
FindByEmail(us, email) ==
    IF \E i \in 1..Len(us) : us[i].email = email
    THEN CHOOSE i \in 1..Len(us) :
            /\ us[i].email = email
            /\ \A j \in 1..Len(us) : us[j].email = email => i <= j
    ELSE 0

\* a collection whose index was never declared
NoUniqueIndex(us, self, email) == TRUE

\* the unique index that `unique: true` declares on email: may document
\* `self` (0 for a new one) take this email?
UniqueIndexAllows(us, self, email) ==
    \A i \in 1..Len(us) : i # self => us[i].email # email

\* an update whose filter matches the first document instead of the caller's
SetEmailOfFirst(us, id, email) == [us EXCEPT ![1].email = email]

\* the $set of User.findByIdAndUpdate(id, { email })
SetEmail(us, id, email) == [us EXCEPT ![id].email = email]

\* an update that is never applied
SetPasswordHashDropped(us, id, passwordHash) == us

\* the $set of User.findByIdAndUpdate(id, { passwordHash })
SetPasswordHash(us, id, passwordHash) == [us EXCEPT ![id].passwordHash = passwordHash]

-----------------------------------------------------------------------------
(* Requests and responses *)
NoToken == Undefined

\* the request a step handled and the response it sent; status 0: no response
\* yet, the handler is suspended
Response(route, email, password, auth, status, message, token, hashed) ==
    [route |-> route, email |-> email, password |-> password, auth |-> auth,
     status |-> status, message |-> message, token |-> token, hashed |-> hashed]

Idle == Response("none", Undefined, Undefined, Undefined, 0, "", NoToken, FALSE)

InFlightSignups ==
    BagCardinality([r \in {q \in BagToSet(inflight) : q.route = "signup"} |-> inflight[r]])

Suspended(r) == inflight (+) SetToBag({r})
Resumed(r) == inflight (-) SetToBag({r})

-----------------------------------------------------------------------------
(* POST /api/signup *)

\* up to the await of User.findOne: validation and the existence check
SignupBegin(email, password) ==
    IF Falsy(email) \/ Falsy(password)
    THEN /\ last' = Response("signup", email, password, Undefined, 400,
                             "Email and password required", NoToken, FALSE)
         /\ UNCHANGED <<users, inflight, tokens, now, lastPw>>
    ELSE IF FindByEmail(users, email.s) # 0
    THEN /\ last' = Response("signup", email, password, Undefined, 400,
                             "Email already in use", NoToken, FALSE)
         /\ UNCHANGED <<users, inflight, tokens, now, lastPw>>
    ELSE /\ BagCardinality(inflight) < MaxInFlight
         /\ Len(users) + InFlightSignups < MaxUsers
         /\ inflight' = Suspended([route |-> "signup", email |-> email,
                                   password |-> password])
         /\ last' = Response("signup", email, password, Undefined, 0, "", NoToken, FALSE)
         /\ UNCHANGED <<users, tokens, now, lastPw>>

\* from bcrypt.genSalt to the response: hash, newUser.save(), jwt.sign
SignupSave(r) ==
    /\ r.route = "signup"
    /\ \E salt \in Salts :
         LET passwordHash == bcryptHash(r.password.s, salt)
             id == Len(users) + 1
         IN IF UniqueIndexAllows(users, 0, r.email.s)
            THEN /\ users' = Append(users, [email |-> r.email.s, passwordHash |-> passwordHash])
                 /\ lastPw' = Append(lastPw, Undefined)
                 /\ tokens' = tokens \cup {jwtSign(id, now)}
                 /\ last' = Response("signup", r.email, r.password, Undefined, 200, "",
                                     jwtSign(id, now), TRUE)
            ELSE /\ last' = Response("signup", r.email, r.password, Undefined, 500,
                                     "Server error during signup", NoToken, TRUE)
                 /\ UNCHANGED <<users, lastPw, tokens>>
    /\ inflight' = Resumed(r)
    /\ UNCHANGED now

-----------------------------------------------------------------------------
(* POST /api/login *)

\* the response of the handler over the collection `us` at time t
LoginResult(us, t, email, password) ==
    IF Falsy(email) \/ Falsy(password)
    THEN Response("login", email, password, Undefined, 400,
                  "Email and password required", NoToken, FALSE)
    ELSE LET id == FindByEmail(us, email.s) IN
         IF id = 0
         THEN Response("login", email, password, Undefined, 400,
                       "Invalid credentials", NoToken, FALSE)
         ELSE IF ~bcryptCompare(password.s, us[id].passwordHash)
         THEN Response("login", email, password, Undefined, 400,
                       "Invalid credentials", NoToken, FALSE)
         ELSE Response("login", email, password, Undefined, 200, "",
                       jwtSign(id, t), FALSE)

Login(email, password) ==
    /\ last' = LoginResult(users, now, email, password)
    /\ tokens' = IF last'.status = 200 THEN tokens \cup {last'.token} ELSE tokens
    /\ UNCHANGED <<users, inflight, now, lastPw>>

-----------------------------------------------------------------------------
(* POST /api/update-email *)

\* up to the await of User.findOne
UpdateEmailBegin(auth, email) ==
    LET token == BearerToken(auth) IN
    IF Falsy(token)
    THEN /\ last' = Response("update-email", email, Undefined, auth, 401,
                             "Unauthorized", NoToken, FALSE)
         /\ UNCHANGED <<users, inflight, tokens, now, lastPw>>
    ELSE IF ~jwtVerifies(token, now)
    THEN /\ last' = Response("update-email", email, Undefined, auth, 500,
                             "Server error updating email", NoToken, FALSE)
         /\ UNCHANGED <<users, inflight, tokens, now, lastPw>>
    ELSE IF Falsy(email) \/ ~Includes(email.s, "@")
    THEN /\ last' = Response("update-email", email, Undefined, auth, 400,
                             "Invalid email", NoToken, FALSE)
         /\ UNCHANGED <<users, inflight, tokens, now, lastPw>>
    ELSE IF FindByEmail(users, email.s) # 0
    THEN /\ last' = Response("update-email", email, Undefined, auth, 400,
                             "Email already in use", NoToken, FALSE)
         /\ UNCHANGED <<users, inflight, tokens, now, lastPw>>
    ELSE /\ BagCardinality(inflight) < MaxInFlight
         /\ inflight' = Suspended([route |-> "update-email", id |-> token.id,
                                   email |-> email, auth |-> auth])
         /\ last' = Response("update-email", email, Undefined, auth, 0, "", NoToken, FALSE)
         /\ UNCHANGED <<users, tokens, now, lastPw>>

\* User.findByIdAndUpdate(decoded.id, { email }) and the response
UpdateEmailWrite(r) ==
    /\ r.route = "update-email"
    /\ IF UniqueIndexAllows(users, r.id, r.email.s)
       THEN /\ users' = SetEmail(users, r.id, r.email.s)
            /\ last' = Response("update-email", r.email, Undefined, r.auth, 200,
                                "Email updated successfully", NoToken, FALSE)
       ELSE /\ last' = Response("update-email", r.email, Undefined, r.auth, 500,
                                "Server error updating email", NoToken, FALSE)
            /\ UNCHANGED users
    /\ inflight' = Resumed(r)
    /\ UNCHANGED <<tokens, now, lastPw>>

-----------------------------------------------------------------------------
(* POST /api/update-password *)
UpdatePassword(auth, password) ==
    LET token == BearerToken(auth) IN
    /\ IF Falsy(token)
       THEN /\ last' = Response("update-password", Undefined, password, auth, 401,
                                "Unauthorized", NoToken, FALSE)
            /\ UNCHANGED <<users, lastPw>>
       ELSE IF ~jwtVerifies(token, now)
       THEN /\ last' = Response("update-password", Undefined, password, auth, 500,
                                "Server error updating password", NoToken, FALSE)
            /\ UNCHANGED <<users, lastPw>>
       ELSE IF Falsy(password) \/ Len(password.s) < MinPasswordLength
       THEN /\ last' = Response("update-password", Undefined, password, auth, 400,
                                "Password must be at least 6 characters", NoToken, FALSE)
            /\ UNCHANGED <<users, lastPw>>
       ELSE \E salt \in Salts :
            /\ users' = SetPasswordHash(users, token.id, bcryptHash(password.s, salt))
            /\ lastPw' = [lastPw EXCEPT ![token.id] = password]
            /\ last' = Response("update-password", Undefined, password, auth, 200,
                                "Password updated successfully", NoToken, TRUE)
    /\ UNCHANGED <<inflight, tokens, now>>

\* a token lifetime passes
Tick ==
    /\ now < MaxTicks * ExpiresInDays
    /\ now' = now + ExpiresInDays
    /\ last' = Idle
    /\ UNCHANGED <<users, inflight, tokens, lastPw>>

-----------------------------------------------------------------------------
(* Properties of the account routes *)

\* the header carries no token, or one that jwt.verify rejects now
TokenBad(auth) ==
    LET token == BearerToken(auth) IN Falsy(token) \/ ~jwtVerifies(token, now)

\* C1: every /api/update-email request whose bearer token is missing, expired
\* or malformed is answered 401 and leaves the User collection unchanged,
\* whatever its body.  (inflight' = inflight: the step is the one that read
\* the header, not the resumption of a request suspended earlier.)
C1_BadTokenIs401 ==
    [][(last'.route = "update-email" /\ inflight' = inflight /\ TokenBad(last'.auth))
         => (last'.status = 401 /\ users' = users)]_vars

\* C2: a signup whose email is held by a User document when it is answered
\* gets 400 and creates no document, in every interleaving.
C2_UsedEmailIs400 ==
    [][(/\ last'.route = "signup"
        /\ last'.status # 0
        /\ ~Falsy(last'.email)
        /\ FindByEmail(users, last'.email.s) # 0)
         => (last'.status = 400 /\ users' = users)]_vars

\* C3: no two User documents hold the same email, in every reachable state of
\* interleaved signup and update-email requests.
C3_EmailUnique ==
    \A i, j \in 1..Len(users) : i # j => users[i].email # users[j].email

\* two signups raced for one email and the index refused the second write
C3_Witness ==
    /\ last.route = "signup"
    /\ last.status = 500
    /\ FindByEmail(users, last.email.s) # 0

\* C4: login with the password of an existing user yields a token for that
\* user; login with an unknown email and login with a wrong password get the
\* same status, message and (absent) token.
C4_LoginNoLeak ==
    (last.route = "login" /\ ~Falsy(last.email) /\ ~Falsy(last.password)) =>
        LET id == FindByEmail(users, last.email.s) IN
        IF id # 0 /\ users[id].passwordHash.digestOf = last.password.s
        THEN /\ last.status = 200
             /\ last.token.t = "jwt"
             /\ last.token.id = id
             /\ jwtVerifies(last.token, now)
        ELSE /\ last.status = 400
             /\ last.message = "Invalid credentials"
             /\ last.token = NoToken

\* a login with a known email and a wrong password was refused
C4_Witness ==
    /\ last.route = "login"
    /\ last.status = 400
    /\ ~Falsy(last.email) /\ ~Falsy(last.password)
    /\ FindByEmail(users, last.email.s) # 0

\* C7: /api/update-password changes nothing and computes no hash for a
\* password shorter than 6 characters; with a missing or invalid token it
\* answers 401 and changes nothing.
C7_UpdatePasswordRejects ==
    [][last'.route = "update-password" =>
         /\ (Falsy(last'.password) \/ Len(last'.password.s) < MinPasswordLength)
               => (users' = users /\ ~last'.hashed)
         /\ TokenBad(last'.auth) => (last'.status = 401 /\ users' = users)]_vars

\* the first half of C7 alone: a short password is rejected without a hash
\* and without a write
C7_ShortPasswordNoHash ==
    [][(/\ last'.route = "update-password"
        /\ (Falsy(last'.password) \/ Len(last'.password.s) < MinPasswordLength))
         => (users' = users /\ ~last'.hashed /\ last'.status # 200)]_vars

\* C9: a token issued by signup or login names the user it was issued for, and
\* a successful update-email or update-password made with a token changes the
\* named field of that user's document and nothing else.
C9_TokenBoundToUser ==
    [][/\ (last'.route \in {"signup", "login"} /\ last'.status = 200) =>
            /\ last'.token \in tokens'
            /\ last'.token.id \in 1..Len(users')
            /\ users'[last'.token.id].email = last'.email.s
       /\ (last'.route = "update-email" /\ last'.status = 200) =>
            LET token == BearerToken(last'.auth) IN
            /\ token \in tokens
            /\ Len(users') = Len(users)
            /\ \A i \in 1..Len(users) :
                 /\ users'[i].passwordHash = users[i].passwordHash
                 /\ users'[i].email = IF i = token.id THEN last'.email.s ELSE users[i].email
       /\ (last'.route = "update-password" /\ last'.status = 200) =>
            LET token == BearerToken(last'.auth) IN
            /\ token \in tokens
            /\ Len(users') = Len(users)
            /\ \A i \in 1..Len(users) :
                 /\ users'[i].email = users[i].email
                 /\ i # token.id => users'[i].passwordHash = users[i].passwordHash
            /\ users'[token.id].passwordHash.digestOf = last'.password.s]_vars

\* the second user changed its email with its own token
C9_Witness ==
    /\ last.route = "update-email"
    /\ last.status = 200
    /\ Len(users) = 2
    /\ BearerToken(last.auth).id = 2
    /\ users[2].email = last.email.s

\* C10, password half: while P is the password of U's latest successful
\* update-password, a login with U's email succeeds for U with P and gets
\* "Invalid credentials" with any other password.
C10_LoginUsesLatestPassword ==
    (last.route = "login" /\ ~Falsy(last.email) /\ ~Falsy(last.password)) =>
        \A u \in 1..Len(users) :
            (users[u].email = last.email.s /\ lastPw[u] # Undefined) =>
                IF last.password = lastPw[u]
                THEN last.status = 200 /\ last.token.id = u
                ELSE last.status = 400 /\ last.message = "Invalid credentials"

\* C10: the password half in every state, and the email half: a successful
\* update-email leaves a store in which login with the new email and U's
\* password succeeds for U and login with the old email is refused.
C10_LoginAfterUpdate ==
    [][/\ C10_LoginUsesLatestPassword'
       /\ (last'.route = "update-email" /\ last'.status = 200) =>
            LET u == BearerToken(last'.auth).id
                old == Str(users[u].email)
                pw == Str(users[u].passwordHash.digestOf)
            IN /\ LoginResult(users', now', last'.email, pw).status = 200
               /\ LoginResult(users', now', last'.email, pw).token.id = u
               /\ old # last'.email =>
                    \A p \in PasswordInputs :
                        /\ LoginResult(users', now', old, p).status = 400
                        /\ p # Undefined =>
                             LoginResult(users', now', old, p).message = "Invalid credentials"]_vars

\* after an update-password, a login with another password was refused
C10_Witness ==
    /\ last.route = "login"
    /\ last.status = 400
    /\ ~Falsy(last.email) /\ ~Falsy(last.password)
    /\ \E u \in 1..Len(users) :
         /\ users[u].email = last.email.s
         /\ lastPw[u] # Undefined
         /\ lastPw[u] # last.password

-----------------------------------------------------------------------------
AuthInit ==
    /\ users = <<>>
    /\ inflight = EmptyBag
    /\ tokens = {}
    /\ now = 0
    /\ last = Idle
    /\ lastPw = <<>>

-----------------------------------------------------------------------------
(* JavaScript expressions used by /api/recipe *)

\* v.k : a TypeError on null and undefined, undefined where the property is missing
Get(v, k) ==
    IF Nullish(v) THEN Throw
    ELSE IF v.t = "object" /\ k \in DOMAIN v.f THEN v.f[k]
    ELSE Undefined

\* v?.k
OptGet(v, k) == IF Nullish(v) THEN Undefined ELSE Get(v, k)

\* v?.[0]
OptFirst(v) ==
    IF Nullish(v) THEN Undefined
    ELSE IF v.t = "array" /\ Len(v.items) >= 1 THEN v.items[1]
    ELSE Undefined

\* a || b
OrElse(a, b) == IF Falsy(a) THEN b ELSE a

\* Array.prototype.join(", ") over strings: the pieces of the joined string
RECURSIVE Join(_)
Join(items) ==
    IF items = <<>> THEN <<>>
    ELSE IF Len(items) = 1 THEN <<items[1]>>
    ELSE <<items[1], ", ">> \o Join(Tail(items))

\* `${n}` for a number
NumText(n) == <<ToString(n)>>

\* `${v}` for a number or a string
Interpolated(v) == IF v.t = "number" THEN NumText(v.n) ELSE v.s

\* JSON.stringify(v): the JSON text of v
JsonText(v) == <<"json", v>>

NoRecipeGenerated == <<"No recipe generated.">>
NonePlaceholder == <<"None">>
AnyPlaceholder == <<"Any">>
FlexiblePlaceholder == <<"flexible">>
EmptyObject == Obj([x \in {} |-> Undefined])

-----------------------------------------------------------------------------
(* POST /api/preferences *)
Body(dietary, equipment, budget, cookingHours, mealTimes) ==
    [dietary |-> dietary, equipment |-> equipment, budget |-> budget,
     cookingHours |-> cookingHours, mealTimes |-> mealTimes]

\* list items are whole strings: the handlers only join them
Vegan == "vegan"
NutFree == "nut-free"
Oven == "oven"
MealTimes == Obj([breakfast |-> Str(<<"8">>)])

\* request bodies tried: each field absent in turn, and valid bodies with
\* zeros, empty lists and ordinary values
PreferenceBodies ==
    {Body(Undefined, Undefined, Undefined, Undefined, Undefined),
     Body(Undefined, Arr(<<Oven>>), Num(50), Num(5), MealTimes),
     Body(Arr(<<Vegan>>), Null, Num(50), Num(5), MealTimes),
     Body(Arr(<<Vegan>>), Arr(<<Oven>>), Null, Num(5), MealTimes),
     Body(Arr(<<Vegan>>), Arr(<<Oven>>), Num(50), Undefined, MealTimes),
     Body(Arr(<<>>), Arr(<<>>), Num(0), Num(0), Undefined),
     Body(Arr(<<Vegan, NutFree>>), Arr(<<Oven>>), Num(50), Num(5), MealTimes)}

\* the condition of the handler's 400
PreferencesInvalid(body) ==
    \/ Falsy(body.dietary)
    \/ Falsy(body.equipment)
    \/ Nullish(body.budget)
    \/ Nullish(body.cookingHours)

\* new UserPreference({...}) at time t: the document mongoose stores
PreferenceDoc(body, t) ==
    [dietary |-> body.dietary.items, equipment |-> body.equipment.items,
     budget |-> body.budget.n, cookingHours |-> body.cookingHours.n,
     mealTimes |-> body.mealTimes, createdAt |-> t]

\* a save that replaces the newest document instead of inserting
SaveOverNewest(ps, doc) ==
    IF ps = <<>> THEN <<doc>> ELSE [ps EXCEPT ![Len(ps)] = doc]

\* prefs.save(): insert one document
SavePreference(ps, doc) == Append(ps, doc)

RecipeResponse(route, body, status, message) ==
    [route |-> route, body |-> body, status |-> status, message |-> message]

Preferences(body) ==
    IF PreferencesInvalid(body)
    THEN /\ lastR' = RecipeResponse("preferences", body, 400, "Invalid preferences data")
         /\ UNCHANGED <<prefs, recipes, clock>>
    ELSE /\ Len(prefs) < MaxPrefs
         /\ prefs' = SavePreference(prefs, PreferenceDoc(body, clock))
         /\ lastR' = RecipeResponse("preferences", body, 200, "Preferences saved!")
         /\ UNCHANGED <<recipes, clock>>

-----------------------------------------------------------------------------
(* POST /api/recipe *)
Egg == "egg"
Flour == "flour"
Pancakes == Str(<<"Pancakes">>)

\* absent, a string instead of a list, and a list
IngredientInputs == {Undefined, Str(<<Egg>>), Arr(<<Egg, Flour>>)}

\* what response.json() resolves to
TextAt(text) == Obj([output |-> Arr(<<Obj([content |-> Arr(<<Obj([text |-> text])>>)])>>)])

\* bodies without the nested text: no output, empty output list, no content,
\* empty content list, no text, a null body, a body that is no object
DataWithoutText ==
    {EmptyObject,
     Obj([output |-> Arr(<<>>)]),
     Obj([output |-> Arr(<<EmptyObject>>)]),
     Obj([output |-> Arr(<<Obj([content |-> Arr(<<>>)])>>)]),
     Obj([output |-> Arr(<<Obj([content |-> Arr(<<EmptyObject>>)])>>)]),
     Null,
     Str(<<"oops">>)}

\* outcomes of the fetch and of response.json()
Fetched ==
    {[kind |-> "networkError", data |-> Undefined], [kind |-> "notJson", data |-> Undefined]}
    \cup {[kind |-> "json", data |-> d] : d \in DataWithoutText \cup {TextAt(Pancakes), TextAt(Str(<<>>))}}

\* UserPreference.findOne().sort({ createdAt: -1 }): the documents it may
\* return, null when the collection is empty
FindLatest(ps) ==
    IF ps = <<>> THEN {Null}
    ELSE {Obj(ps[i]) : i \in {k \in 1..Len(ps) :
                                \A j \in 1..Len(ps) : ps[j].createdAt <= ps[k].createdAt}}

\* the values interpolated into the prompt template, in the template's order
BuildPrompt(ingredients, p) ==
    [ingredients |-> Join(ingredients.items),
     \* prefs?.dietary?.join(", ") || "None"
     dietary |-> OrElse(IF Nullish(p) THEN Undefined ELSE Str(Join(p.f.dietary)),
                        Str(NonePlaceholder)).s,
     \* prefs?.equipment?.join(", ") || "Any"
     equipment |-> OrElse(IF Nullish(p) THEN Undefined ELSE Str(Join(p.f.equipment)),
                          Str(AnyPlaceholder)).s,
     \* prefs?.budget || "flexible"
     budget |-> Interpolated(OrElse(IF Nullish(p) THEN Undefined ELSE Num(p.f.budget),
                                    Str(FlexiblePlaceholder))),
     \* prefs?.cookingHours || "flexible"
     cookingHours |-> Interpolated(OrElse(IF Nullish(p) THEN Undefined
                                          ELSE Num(p.f.cookingHours),
                                          Str(FlexiblePlaceholder))),
     \* JSON.stringify(prefs?.mealTimes || {})
     mealTimes |-> JsonText(OrElse(IF Nullish(p) THEN Undefined ELSE p.f.mealTimes,
                                   EmptyObject))]

\* data.output?.[0]?.content?.[0]?.text || "No recipe generated."
ExtractText(data) ==
    LET output == Get(data, "output") IN
    IF output = Throw THEN Throw
    ELSE OrElse(OptGet(OptFirst(OptGet(OptFirst(output), "content")), "text"),
                Str(NoRecipeGenerated))

NoPrompt == [ingredients |-> <<>>, dietary |-> <<>>, equipment |-> <<>>,
             budget |-> <<>>, cookingHours |-> <<>>, mealTimes |-> <<>>]

RecipeResult(ingredients, fetched, status, message, prompt, recipe) ==
    [route |-> "recipe", body |-> ingredients, fetched |-> fetched, status |-> status,
     message |-> message, prompt |-> prompt, recipe |-> recipe]

Recipe(ingredients, fetched) ==
    IF Falsy(ingredients) \/ ingredients.t # "array"
    THEN /\ lastR' = RecipeResult(ingredients, fetched, 400, "Ingredients must be an array",
                                  NoPrompt, Undefined)
         /\ UNCHANGED <<prefs, recipes, clock>>
    ELSE \E p \in FindLatest(prefs) :
         LET prompt == BuildPrompt(ingredients, p)
             recipeText == IF fetched.kind = "json" THEN ExtractText(fetched.data) ELSE Throw
         IN IF recipeText = Throw
            THEN /\ lastR' = RecipeResult(ingredients, fetched, 500, "Server error",
                                          prompt, Undefined)
                 /\ UNCHANGED <<prefs, recipes, clock>>
            ELSE /\ Len(recipes) < MaxRecipes
                 /\ recipes' = Append(recipes, [ingredients |-> ingredients.items,
                                                recipeText |-> recipeText.s,
                                                createdAt |-> clock])
                 /\ lastR' = RecipeResult(ingredients, fetched, 200, "", prompt, recipeText)
                 /\ UNCHANGED <<prefs, clock>>

RecipeIdle == [route |-> "none"]

\* Date.now() moves on
ClockTick ==
    /\ clock < MaxClock
    /\ clock' = clock + 1
    /\ lastR' = RecipeIdle
    /\ UNCHANGED <<prefs, recipes>>

-----------------------------------------------------------------------------
(* Properties of the preference and recipe routes *)

\* a submission the interface calls valid: both lists present, both numbers
\* present, zero included
ValidSubmission(body) ==
    /\ body.dietary.t = "array"
    /\ body.equipment.t = "array"
    /\ body.budget.t = "number"
    /\ body.cookingHours.t = "number"

\* C5: a valid preferences submission adds exactly one document and leaves
\* every stored document as it was; an invalid one gets 400 and changes
\* nothing.
C5_PreferencesAppend ==
    [][lastR'.route = "preferences" =>
         IF ValidSubmission(lastR'.body)
         THEN /\ lastR'.status = 200
              /\ Len(prefs') = Len(prefs) + 1
              /\ SubSeq(prefs', 1, Len(prefs)) = prefs
              /\ prefs'[Len(prefs')].budget = lastR'.body.budget.n
              /\ prefs'[Len(prefs')].dietary = lastR'.body.dietary.items
         ELSE /\ lastR'.status = 400
              /\ prefs' = prefs]_vars

\* a second document was stored, with budget 0
C5_Witness ==
    /\ lastR.route = "preferences"
    /\ lastR.status = 200
    /\ lastR.body.budget = Num(0)
    /\ Len(prefs) = 2

\* C6: for every external response without the nested text, /api/recipe
\* answers success with "No recipe generated." and stores exactly one Recipe
\* pairing the request's ingredients with that text.
C6_MalformedResponse ==
    [][(/\ lastR'.route = "recipe"
        /\ lastR'.body.t = "array"
        /\ lastR'.fetched.kind = "json"
        /\ lastR'.fetched.data \in DataWithoutText)
         => /\ lastR'.status = 200
            /\ lastR'.recipe = Str(NoRecipeGenerated)
            /\ recipes' = Append(recipes, [ingredients |-> lastR'.body.items,
                                           recipeText |-> NoRecipeGenerated,
                                           createdAt |-> clock])]_vars

\* C6 without the null body: every other shape without the text is answered
\* with the substitute text and stored
C6_MalformedObjectResponse ==
    [][(/\ lastR'.route = "recipe"
        /\ lastR'.body.t = "array"
        /\ lastR'.fetched.kind = "json"
        /\ lastR'.fetched.data \in DataWithoutText \ {Null})
         => /\ lastR'.status = 200
            /\ lastR'.recipe = Str(NoRecipeGenerated)
            /\ recipes' = Append(recipes, [ingredients |-> lastR'.body.items,
                                           recipeText |-> NoRecipeGenerated,
                                           createdAt |-> clock])]_vars

\* C8: the prompt embeds dietary, equipment, budget and cookingHours of a
\* PreferenceSet with the latest createdAt, zeros and empty lists included;
\* the placeholders appear only when the collection is empty.
C8_PromptFromLatest ==
    (lastR.route = "recipe" /\ lastR.status \in {200, 500}) =>
        IF prefs = <<>>
        THEN /\ lastR.prompt.dietary = NonePlaceholder
             /\ lastR.prompt.equipment = AnyPlaceholder
             /\ lastR.prompt.budget = FlexiblePlaceholder
             /\ lastR.prompt.cookingHours = FlexiblePlaceholder
        ELSE \E i \in 1..Len(prefs) :
             /\ \A j \in 1..Len(prefs) : prefs[j].createdAt <= prefs[i].createdAt
             /\ lastR.prompt.dietary = Join(prefs[i].dietary)
             /\ lastR.prompt.equipment = Join(prefs[i].equipment)
             /\ lastR.prompt.budget = NumText(prefs[i].budget)
             /\ lastR.prompt.cookingHours = NumText(prefs[i].cookingHours)

\* C8 for the values the code does embed: a latest document with non-zero
\* numbers and non-empty lists
C8_PromptFromLatestNonZero ==
    (lastR.route = "recipe" /\ lastR.status \in {200, 500} /\ prefs # <<>>) =>
        \E i \in 1..Len(prefs) :
             /\ \A j \in 1..Len(prefs) : prefs[j].createdAt <= prefs[i].createdAt
             /\ prefs[i].dietary # <<>> => lastR.prompt.dietary = Join(prefs[i].dietary)
             /\ prefs[i].equipment # <<>> => lastR.prompt.equipment = Join(prefs[i].equipment)
             /\ prefs[i].budget # 0 => lastR.prompt.budget = NumText(prefs[i].budget)
             /\ prefs[i].cookingHours # 0 =>
                    lastR.prompt.cookingHours = NumText(prefs[i].cookingHours)

-----------------------------------------------------------------------------
Init ==
    /\ AuthInit
    /\ prefs = <<>>
    /\ recipes = <<>>
    /\ clock = 0
    /\ lastR = RecipeIdle

Next ==
    \/ \E email \in EmailInputs, password \in PasswordInputs :
         SignupBegin(email, password) /\ UNCHANGED recipeVars
    \/ \E r \in BagToSet(inflight) : SignupSave(r) /\ UNCHANGED recipeVars
    \/ \E email \in EmailInputs, password \in PasswordInputs :
         Login(email, password) /\ UNCHANGED recipeVars
    \/ \E auth \in AuthHeaders, email \in NewEmailInputs :
         UpdateEmailBegin(auth, email) /\ UNCHANGED recipeVars
    \/ \E r \in BagToSet(inflight) : UpdateEmailWrite(r) /\ UNCHANGED recipeVars
    \/ \E auth \in AuthHeaders, password \in PasswordInputs :
         UpdatePassword(auth, password) /\ UNCHANGED recipeVars
    \/ Tick /\ UNCHANGED recipeVars

Spec == Init /\ [][Next]_vars

RecipeNext ==
    \/ \E body \in PreferenceBodies : Preferences(body) /\ UNCHANGED authVars
    \/ \E ingredients \in IngredientInputs, fetched \in Fetched :
         Recipe(ingredients, fetched) /\ UNCHANGED authVars
    \/ ClockTick /\ UNCHANGED authVars

RecipeSpec == Init /\ [][RecipeNext]_vars

=============================================================================
